---- MODULE Spec2Model ----
(***************************************************************************)
(* CPU scheduling simulator (src/OS Project/main.py): the four policy      *)
(* engines fcfs, sjf, priority and round_robin, and calculate_metrics.     *)
(* One run of the "Run Simulation" handler: the process list is built,     *)
(* the selected engine is called, then the metrics are computed.  Every    *)
(* engine is modelled one loop iteration per step.                         *)
(*                                                                         *)
(* Python lists are sequences; Python's 0-based index i is kept 1-based    *)
(* (i here = i in the code + 1).  A dict is a function on its key set.     *)
(* pids are 1..n in the order of the caller's list; IDLE is the sentinel.  *)
(***************************************************************************)
EXTENDS Integers, Sequences, FiniteSets, TLC

\* ----------------------------------------------------------------- bounds
MaxProcs == 2
MaxArrival == 2
MaxBurst == 2
MaxPriority == 2
MaxQuantum == 2

\* a run whose quantum is not positive never returns: it is followed for
\* EventCap timeline events
EventCap == 12

\* the sentinel pid of an idle interval ('IDLE' in the code)
IDLE == 0

VARIABLES
    given,      \* the process list as the caller built it (never assigned again)
    policy,     \* algo
    quantum,    \* quantum
    processes,  \* the list object the engine receives and sorts in place
    time,       \* the clock
    gantt,      \* the timeline
    ready,      \* the ready queue
    results,    \* pid -> [arrival, burst, completion]
    remaining,  \* round_robin: pid -> remaining burst
    completed,  \* round_robin: pid -> completion time
    i,          \* index of the next process not yet admitted (fcfs: the loop position)
    readyAt,    \* history: pid -> clock value when it last entered the ready queue
    waits,      \* history: for each timeline event, start - readyAt of its process
    metrics,    \* the result of calculate_metrics
    pc          \* "call", "loop", "returned", "done"; "IndexError" once raised

vars == <<given, policy, quantum, processes, time, gantt, ready, results,
          remaining, completed, i, readyAt, waits, metrics, pc>>

\* ----------------------------------------------------------------- data
Proc(id, a, b, pr) == [pid |-> id, arrival |-> a, burst |-> b, priority |-> pr]

Event(id, s, e) == [pid |-> id, start |-> s, end |-> e]

Record(p, e) == [arrival |-> p.arrival, burst |-> p.burst, completion |-> e]

EmptyDict == [x \in {} |-> 0]

\* d[k] = v of a Python dict: a new key is added, an existing one overwritten
DictSet(d, k, v) == [x \in DOMAIN d \cup {k} |-> IF x = k THEN v ELSE d[x]]

Min2(a, b) == IF a <= b THEN a ELSE b

\* ----------------------------------------------------------------- list.sort
\* list.sort(key=...) is stable: an element goes after every element whose
\* key is not greater than its own.
insert_unstable(s, x, k) ==
    LET n == Cardinality({j \in 1..Len(s) : s[j][k] < x[k]})
    IN SubSeq(s, 1, n) \o <<x>> \o SubSeq(s, n + 1, Len(s))

insert_sorted(s, x, k) ==
    LET n == Cardinality({j \in 1..Len(s) : s[j][k] <= x[k]})
    IN SubSeq(s, 1, n) \o <<x>> \o SubSeq(s, n + 1, Len(s))

RECURSIVE list_sort(_, _)
list_sort(s, k) ==
    IF s = <<>> THEN <<>>
    ELSE insert_sorted(list_sort(SubSeq(s, 1, Len(s) - 1), k), s[Len(s)], k)

\* ----------------------------------------------------------------- helpers
\* the inner while loop: the index after the last process with arrival <= t
admit_all(procs, k, t) == Len(procs) + 1

RECURSIVE admit_until(_, _, _)
admit_until(procs, k, t) ==
    IF k <= Len(procs) /\ procs[k].arrival <= t
    THEN admit_until(procs, k + 1, t)
    ELSE k

\* the clock a ready-queue engine starts with
initial_clock(procs) == procs[1].arrival

\* the clock fcfs starts with
fcfs_clock(procs) == 0

\* the event fcfs emits when the clock is behind the next arrival
idle_event_from_zero(t, a) == Event(IDLE, 0, a)

idle_event(t, a) == Event(IDLE, t, a)

\* the idle jump: the clock moves to the next unarrived process's arrival
idle_jump_last(procs, k, t) == procs[Len(procs)].arrival

idle_jump_prev(procs, k, t) == procs[k - 1].arrival

idle_jump(procs, k, t) == procs[k].arrival

\* the slice length of round_robin
run_time_full(q, rem) == q

run_time(q, rem) == Min2(q, rem)

\* the end of a slice (or of a whole run)
slice_end_short(start, len) == start + len - 1

slice_end(start, len) == start + len

\* the queue after a slice of p: the new arrivals, then p if it is unfinished
requeue_first(rdy, arrivals, p, unfinished) ==
    IF unfinished THEN (rdy \o <<p>>) \o arrivals ELSE rdy \o arrivals

requeue_front(rdy, arrivals, p, unfinished) ==
    IF unfinished THEN (<<p>> \o rdy) \o arrivals ELSE rdy \o arrivals

requeue_always(rdy, arrivals, p, unfinished) == (rdy \o arrivals) \o <<p>>

requeue(rdy, arrivals, p, unfinished) ==
    IF unfinished THEN (rdy \o arrivals) \o <<p>> ELSE rdy \o arrivals

\* {p['pid']: p['burst'] for p in processes}: a later entry overwrites an earlier
remaining_init(procs) ==
    [x \in {procs[j].pid : j \in 1..Len(procs)} |->
        LET last == CHOOSE j \in 1..Len(procs) :
                        /\ procs[j].pid = x
                        /\ \A m \in 1..Len(procs) : procs[m].pid = x => m <= j
        IN procs[last].burst]

\* readyAt after the processes procs[from..to-1] enter the queue at clock t
Entered(ra, procs, from, to, t) ==
    [x \in DOMAIN ra \cup {procs[j].pid : j \in from..(to - 1)} |->
        IF \E j \in from..(to - 1) : procs[j].pid = x THEN t ELSE ra[x]]

\* ----------------------------------------------------------------- inputs
Policies == {"FCFS", "SJF", "Priority", "Round Robin"}

\* the quantum widget's default value
DefaultQuantum == 2

\* priority is read by priority() alone and quantum by round_robin() alone:
\* the other engines are run with every priority 1 and the default quantum.
Priorities(pol) == IF pol = "Priority" THEN 1..MaxPriority ELSE {1}

Quanta(pol) == IF pol = "Round Robin" THEN 1..MaxQuantum ELSE {DefaultQuantum}

ListsOfLen(n, pol) ==
    { [k \in 1..n |-> Proc(k, f[k].arrival, f[k].burst, f[k].priority)] :
        f \in [1..n -> [arrival : 0..MaxArrival, burst : 1..MaxBurst,
                        priority : Priorities(pol)]] }

\* the scenarios of the specification's section 8
ScenarioA == <<Proc(1, 0, 4, 1), Proc(2, 1, 3, 1)>>

ScenarioTie == <<Proc(1, 0, 5, 1), Proc(2, 0, 5, 1)>>

\* three-process workloads: equal keys met again after a later arrival, an
\* unsorted list with two idle periods, three processes sharing the CPU
TrioTie == <<Proc(1, 0, 2, 2), Proc(2, 0, 2, 1), Proc(3, 1, 2, 1)>>

TrioGap == <<Proc(1, 4, 1, 1), Proc(2, 0, 1, 1), Proc(3, 2, 1, 1)>>

TrioShare == <<Proc(1, 0, 3, 1), Proc(2, 0, 3, 2), Proc(3, 1, 3, 1)>>

Workloads == {ScenarioA, ScenarioTie, TrioTie, TrioGap, TrioShare}

ValidLists(pol) ==
    UNION {ListsOfLen(n, pol) : n \in 1..MaxProcs} \cup Workloads

\* round_robin itself accepts any quantum
InvalidQuanta == {-1, 0}

AnyQuanta(pol) ==
    IF pol = "Round Robin" THEN InvalidQuanta \cup (1..MaxQuantum)
    ELSE {DefaultQuantum}

\* the engines accept any list: a valid list with one defect, or no process
WithDuplicatePid(L) == [L EXCEPT ![Len(L)].pid = L[1].pid]

WithBurst(L, b) == [L EXCEPT ![1].burst = b]

WithArrival(L, a) == [L EXCEPT ![1].arrival = a]

InvalidLists(pol) ==
    LET base == UNION {ListsOfLen(n, pol) : n \in 1..MaxProcs}
    IN {<<>>}
       \cup {WithDuplicatePid(L) : L \in {M \in base : Len(M) > 1}}
       \cup {WithBurst(L, b) : L \in base, b \in {-1, 0}}
       \cup {WithArrival(L, -1) : L \in base}

\* the handler is entered: the engine's locals are not yet assigned
Entry ==
    /\ processes = given
    /\ time = 0
    /\ gantt = <<>>
    /\ ready = <<>>
    /\ results = EmptyDict
    /\ remaining = EmptyDict
    /\ completed = EmptyDict
    /\ i = 1
    /\ readyAt = EmptyDict
    /\ waits = <<>>
    /\ metrics = EmptyDict
    /\ pc = "call"

Init ==
    /\ policy \in Policies
    /\ given \in ValidLists(policy)
    /\ quantum \in Quanta(policy)
    /\ Entry

InitUnvalidated ==
    /\ policy \in Policies
    /\ given \in ValidLists(policy)
    /\ quantum \in AnyQuanta(policy)
    /\ Entry

InitAnyList ==
    /\ policy \in Policies
    /\ given \in InvalidLists(policy)
    /\ quantum \in Quanta(policy)
    /\ Entry

\* ----------------------------------------------------------------- fcfs
fcfs_init ==
    /\ pc = "call" /\ policy = "FCFS"
    /\ processes' = list_sort(processes, "arrival")
    /\ time' = fcfs_clock(processes')
    /\ gantt' = <<>>
    /\ results' = EmptyDict
    /\ i' = 1
    /\ pc' = "loop"
    /\ UNCHANGED <<given, policy, quantum, ready, remaining, completed,
                   readyAt, waits, metrics>>

fcfs_iter ==
    /\ pc = "loop" /\ policy = "FCFS"
    /\ i <= Len(processes)
    /\ LET p == processes[i]
           idle == time < p.arrival
           start == IF idle THEN p.arrival ELSE time
           end == slice_end(start, p.burst)
       IN /\ gantt' = (IF idle THEN Append(gantt, idle_event(time, p.arrival))
                       ELSE gantt) \o <<Event(p.pid, start, end)>>
          /\ waits' = (IF idle THEN Append(waits, 0) ELSE waits)
                          \o <<start - p.arrival>>
          /\ results' = DictSet(results, p.pid, Record(p, end))
          /\ time' = end
    /\ i' = i + 1
    /\ UNCHANGED <<given, policy, quantum, processes, ready, remaining,
                   completed, readyAt, metrics, pc>>

fcfs_return ==
    /\ pc = "loop" /\ policy = "FCFS"
    /\ i > Len(processes)
    /\ pc' = "returned"
    /\ UNCHANGED <<given, policy, quantum, processes, time, gantt, ready,
                   results, remaining, completed, i, readyAt, waits, metrics>>

\* ----------------------------------------------------------------- sjf, priority
\* sjf and priority are the same text but for the sort key
select_init ==
    /\ pc = "call"
    /\ Len(processes) > 0
    /\ processes' = list_sort(processes, "arrival")
    /\ ready' = <<>>
    /\ gantt' = <<>>
    /\ results' = EmptyDict
    /\ time' = initial_clock(processes')
    /\ i' = 1
    /\ pc' = "loop"
    /\ UNCHANGED <<given, policy, quantum, remaining, completed, readyAt,
                   waits, metrics>>

select_iter(k) ==
    /\ pc = "loop"
    /\ Cardinality(DOMAIN results) < Len(processes)
    /\ LET i1 == admit_until(processes, i, time)
           ready1 == ready \o SubSeq(processes, i, i1 - 1)
           readyAt1 == Entered(readyAt, processes, i, i1, time)
       IN /\ i' = i1
          /\ IF ready1 = <<>>
             THEN /\ i1 <= Len(processes)
                  /\ time' = idle_jump(processes, i1, time)
                  /\ ready' = ready1
                  /\ readyAt' = readyAt1
                  /\ UNCHANGED <<gantt, results, waits>>
             ELSE LET sorted == list_sort(ready1, k)
                      p == Head(sorted)
                      start == time
                      end == slice_end(start, p.burst)
                  IN /\ ready' = Tail(sorted)
                     /\ gantt' = Append(gantt, Event(p.pid, start, end))
                     /\ waits' = Append(waits, start - readyAt1[p.pid])
                     /\ results' = DictSet(results, p.pid, Record(p, end))
                     /\ time' = end
                     /\ readyAt' = readyAt1
    /\ UNCHANGED <<given, policy, quantum, processes, remaining, completed,
                   metrics, pc>>

select_return ==
    /\ pc = "loop"
    /\ ~(Cardinality(DOMAIN results) < Len(processes))
    /\ pc' = "returned"
    /\ UNCHANGED <<given, policy, quantum, processes, time, gantt, ready,
                   results, remaining, completed, i, readyAt, waits, metrics>>

sjf_init == policy = "SJF" /\ select_init

sjf_iter_by_arrival == policy = "SJF" /\ select_iter("arrival")

sjf_iter == policy = "SJF" /\ select_iter("burst")

sjf_return == policy = "SJF" /\ select_return

priority_init == policy = "Priority" /\ select_init

priority_iter == policy = "Priority" /\ select_iter("priority")

priority_return == policy = "Priority" /\ select_return

\* ----------------------------------------------------------------- round_robin
round_robin_init ==
    /\ pc = "call" /\ policy = "Round Robin"
    /\ Len(processes) > 0
    /\ processes' = list_sort(processes, "arrival")
    /\ time' = initial_clock(processes')
    /\ gantt' = <<>>
    /\ ready' = <<>>
    /\ remaining' = remaining_init(processes')
    /\ completed' = EmptyDict
    /\ i' = 1
    /\ pc' = "loop"
    /\ UNCHANGED <<given, policy, quantum, results, readyAt, waits, metrics>>

round_robin_iter ==
    /\ pc = "loop" /\ policy = "Round Robin"
    /\ Cardinality(DOMAIN completed) < Len(processes)
    /\ (quantum <= 0) => (Len(gantt) < EventCap)
    /\ LET i1 == admit_until(processes, i, time)
           ready1 == ready \o SubSeq(processes, i, i1 - 1)
           readyAt1 == Entered(readyAt, processes, i, i1, time)
       IN IF ready1 = <<>>
          THEN /\ i1 <= Len(processes)
               /\ time' = idle_jump(processes, i1, time)
               /\ i' = i1
               /\ ready' = ready1
               /\ readyAt' = readyAt1
               /\ UNCHANGED <<gantt, remaining, completed, waits>>
          ELSE LET p == Head(ready1)
                   pid == p.pid
                   len == run_time(quantum, remaining[pid])
                   start == time
                   end == slice_end(start, len)
                   rem == remaining[pid] - len
                   i2 == admit_until(processes, i1, end)
                   arrivals == SubSeq(processes, i1, i2 - 1)
                   readyAt2 == Entered(readyAt1, processes, i1, i2, end)
               IN /\ gantt' = Append(gantt, Event(pid, start, end))
                  /\ waits' = Append(waits, start - readyAt1[pid])
                  /\ remaining' = [remaining EXCEPT ![pid] = rem]
                  /\ time' = end
                  /\ i' = i2
                  /\ ready' = requeue(Tail(ready1), arrivals, p, rem > 0)
                  /\ readyAt' = IF rem > 0
                                THEN [readyAt2 EXCEPT ![pid] = end]
                                ELSE readyAt2
                  /\ completed' = IF rem > 0 THEN completed
                                  ELSE DictSet(completed, pid, end)
    /\ UNCHANGED <<given, policy, quantum, processes, results, metrics, pc>>

round_robin_return ==
    /\ pc = "loop" /\ policy = "Round Robin"
    /\ ~(Cardinality(DOMAIN completed) < Len(processes))
    /\ \A j \in 1..Len(processes) : processes[j].pid \in DOMAIN completed
    /\ results' = [x \in {processes[j].pid : j \in 1..Len(processes)} |->
                     LET last == CHOOSE j \in 1..Len(processes) :
                            /\ processes[j].pid = x
                            /\ \A m \in 1..Len(processes) :
                                   processes[m].pid = x => m <= j
                     IN Record(processes[last], completed[x])]
    /\ pc' = "returned"
    /\ UNCHANGED <<given, policy, quantum, processes, time, gantt, ready,
                   remaining, completed, i, readyAt, waits, metrics>>

\* ----------------------------------------------------------------- exceptions
\* processes[0] of an empty list (sjf, priority, round_robin): IndexError
init_index_error ==
    /\ pc = "call" /\ policy # "FCFS"
    /\ Len(processes) = 0
    /\ pc' = "IndexError"
    /\ UNCHANGED <<given, policy, quantum, processes, time, gantt, ready,
                   results, remaining, completed, i, readyAt, waits, metrics>>

\* processes[i] with every process admitted, the ready queue empty and the
\* loop condition still true: IndexError
idle_index_error ==
    /\ pc = "loop" /\ policy # "FCFS"
    /\ LET records == IF policy = "Round Robin" THEN completed ELSE results
       IN Cardinality(DOMAIN records) < Len(processes)
    /\ ready = <<>>
    /\ admit_until(processes, i, time) > Len(processes)
    /\ i > Len(processes)
    /\ pc' = "IndexError"
    /\ UNCHANGED <<given, policy, quantum, processes, time, gantt, ready,
                   results, remaining, completed, i, readyAt, waits, metrics>>

\* ----------------------------------------------------------------- calculate_metrics
RECURSIVE SumOf(_, _)
SumOf(S, f) ==
    IF S = {} THEN 0
    ELSE LET x == CHOOSE y \in S : TRUE IN f[x] + SumOf(S \ {x}, f)

turnaround_of(r) == r.completion - r.arrival

waiting_from_arrival(r, tat) == tat - r.arrival

waiting_of(r, tat) == tat - r.burst

\* a mean is kept exact, as the pair sum / count; the mean of no rows (NaN)
\* is the pair 0 / 0
calculate_metrics ==
    /\ pc = "returned"
    /\ LET tat == [x \in DOMAIN results |-> turnaround_of(results[x])]
           wt == [x \in DOMAIN results |-> waiting_of(results[x], tat[x])]
           n == Cardinality(DOMAIN results)
       IN metrics' = [df |-> [x \in DOMAIN results |->
                                [arrival |-> results[x].arrival,
                                 burst |-> results[x].burst,
                                 completion |-> results[x].completion,
                                 turnaround |-> tat[x],
                                 waiting |-> wt[x]]],
                      avg_wt |-> [sum |-> SumOf(DOMAIN results, wt), count |-> n],
                      avg_tat |-> [sum |-> SumOf(DOMAIN results, tat), count |-> n]]
    /\ pc' = "done"
    /\ UNCHANGED <<given, policy, quantum, processes, time, gantt, ready,
                   results, remaining, completed, i, readyAt, waits>>

\* ----------------------------------------------------------------- specification
Next ==
    \/ fcfs_init
    \/ fcfs_iter
    \/ fcfs_return
    \/ sjf_init
    \/ sjf_iter
    \/ sjf_return
    \/ priority_init
    \/ priority_iter
    \/ priority_return
    \/ round_robin_init
    \/ round_robin_iter
    \/ round_robin_return
    \/ calculate_metrics

Spec == Init /\ [][Next]_vars

\* the interpreter runs the handler to its end: no step is postponed for ever
FairSpec == Spec /\ WF_vars(Next)

\* runs with an unvalidated quantum
SpecUnvalidated == InitUnvalidated /\ [][Next]_vars

\* runs on an unvalidated list, with the exceptions they end in
NextAnyList ==
    \/ fcfs_init
    \/ fcfs_iter
    \/ fcfs_return
    \/ sjf_init
    \/ sjf_iter
    \/ sjf_return
    \/ priority_init
    \/ priority_iter
    \/ priority_return
    \/ round_robin_init
    \/ round_robin_iter
    \/ round_robin_return
    \/ calculate_metrics
    \/ init_index_error
    \/ idle_index_error

SpecAnyList == InitAnyList /\ [][NextAnyList]_vars

\* ----------------------------------------------------------------- properties
Returned == pc \in {"returned", "done"}

Pids == {given[j].pid : j \in 1..Len(given)}

GivenOf(x) == given[CHOOSE j \in 1..Len(given) : given[j].pid = x]

\* the CPU time the first k timeline events give to pid x
RECURSIVE Executed(_, _)
Executed(x, k) ==
    IF k = 0 THEN 0
    ELSE Executed(x, k - 1)
         + (IF gantt[k].pid = x THEN gantt[k].end - gantt[k].start ELSE 0)

EventsOf(x) == {k \in 1..Len(gantt) : gantt[k].pid = x}

EarliestArrival == CHOOSE a \in {given[j].arrival : j \in 1..Len(given)} :
                       \A j \in 1..Len(given) : a <= given[j].arrival

\* some process has arrived by t and the first k events have not finished it
Pending(k, t) ==
    \E x \in Pids : GivenOf(x).arrival <= t /\ Executed(x, k) < GivenOf(x).burst

\* t is the earliest arrival later than s
NextArrivalAfter(s, t) ==
    /\ t > s
    /\ \E x \in Pids : GivenOf(x).arrival = t
    /\ \A x \in Pids : GivenOf(x).arrival > s => GivenOf(x).arrival >= t

\* C1: when a run has returned, the durations of the timeline events that
\* carry a pid add up to that process's burst, whatever the policy.
C1_BurstIsServed ==
    Returned => \A x \in Pids : Executed(x, Len(gantt)) = GivenOf(x).burst

C1_Witness ==
    /\ Returned /\ policy = "Round Robin"
    /\ \E x \in Pids : Cardinality(EventsOf(x)) > 1

\* C2 as stated: every two consecutive timeline events touch, idle periods
\* included.
C2_Contiguous ==
    \A k \in 1..(Len(gantt) - 1) : gantt[k].end = gantt[k + 1].start

\* C2 amended: fcfs's timeline is contiguous; under the ready-queue engines
\* consecutive events touch whenever an arrived process is unfinished at the
\* end of the earlier one, and otherwise the later one starts at the earliest
\* arrival after it, with no event in between.
C2_ContiguousWhileBusy ==
    \A k \in 1..(Len(gantt) - 1) :
        IF policy = "FCFS" \/ Pending(k, gantt[k].end)
        THEN gantt[k + 1].start = gantt[k].end
        ELSE NextArrivalAfter(gantt[k].end, gantt[k + 1].start)

C2_Witness ==
    /\ policy \in {"SJF", "Priority", "Round Robin"}
    /\ \E k \in 1..(Len(gantt) - 1) : gantt[k].end < gantt[k + 1].start

\* C3: the first timeline event starts at the earliest arrival of the list.
C3_FirstStartIsEarliestArrival ==
    gantt # <<>> => gantt[1].start = EarliestArrival

\* C4: every recorded completion is at least arrival + burst, so no derived
\* waiting time is negative.
C4_CompletionBound ==
    /\ Returned =>
          \A x \in Pids :
              /\ x \in DOMAIN results
              /\ results[x].completion >= GivenOf(x).arrival + GivenOf(x).burst
    /\ pc = "done" => \A x \in Pids : metrics.df[x].waiting >= 0

C4_Witness ==
    /\ pc = "done"
    /\ \E x \in Pids : metrics.df[x].waiting > 0
    /\ \E x \in Pids : metrics.df[x].waiting = 0

\* the work still to be done: round_robin's remaining bursts, or the bursts
\* of the processes without a completion record
Work ==
    IF policy = "Round Robin"
    THEN SumOf(DOMAIN remaining, remaining)
    ELSE SumOf({j \in 1..Len(processes) : processes[j].pid \notin DOMAIN results},
               [j \in 1..Len(processes) |-> processes[j].burst])

\* the handler can take its next step: the list is not empty at the call
\* and, when the ready queue stays empty after admission, a process is left
\* to jump to (processes[i] exists)
CanProceed ==
    /\ pc = "call" => Len(processes) > 0
    /\ (pc = "loop" /\ policy # "FCFS") =>
          LET records == IF policy = "Round Robin" THEN completed ELSE results
          IN (/\ Cardinality(DOMAIN records) < Len(processes)
              /\ ready = <<>>
              /\ admit_until(processes, i, time) = i)
             => i <= Len(processes)
    /\ pc = "returned" => DOMAIN results # {}

\* where CanProceed holds a step of the handler is enabled
CanProceedIsEnabled == (pc # "done" /\ CanProceed) => ENABLED Next

\* termination as a liveness property of the fair specification
Termination == <>(pc = "done")

\* C5: a run always ends with a completion recorded for every process: it
\* never stops short of the end, and every iteration of an engine's main loop
\* either reduces the remaining work or moves the clock forward to the next
\* arrival, so that only finitely many iterations are possible.
C5_Terminates ==
    /\ [](pc # "done" => CanProceed)
    /\ [](pc = "done" => \A x \in Pids : x \in DOMAIN results)
    /\ [][(pc = "loop" /\ pc' = "loop") =>
            \/ Work' < Work
            \/ Work' = Work /\ NextArrivalAfter(time, time')]_vars

C5_Witness ==
    /\ pc = "done"
    /\ policy = "Round Robin"
    /\ \E k \in 1..(Len(gantt) - 1) : gantt[k].end < gantt[k + 1].start
    /\ \E x \in Pids : Cardinality(EventsOf(x)) > 1

\* C6: under round_robin no slice starts more than (n - 1) * quantum after
\* its process entered the ready queue or ended its previous slice.
C6_WaitBound ==
    policy = "Round Robin" =>
        \A k \in 1..Len(waits) : waits[k] <= (Len(given) - 1) * quantum

C6_Witness ==
    /\ policy = "Round Robin" /\ Len(given) = 3
    /\ \E k \in 1..Len(waits) : waits[k] = (Len(given) - 1) * quantum
    /\ \E x \in Pids : Cardinality(EventsOf(x)) > 1

\* the selection key of the running policy
KeyOf(x) == IF policy = "SJF" THEN GivenOf(x).burst ELSE GivenOf(x).priority

PositionOf(x) == CHOOSE j \in 1..Len(given) : given[j].pid = x

\* x entered the ready queue before y
EnteredBefore(x, y) ==
    \/ GivenOf(x).arrival < GivenOf(y).arrival
    \/ GivenOf(x).arrival = GivenOf(y).arrival /\ PositionOf(x) < PositionOf(y)

\* C7: under sjf and priority, a process dispatched while another process
\* with the same key is ready entered the queue before it, simultaneous
\* arrivals in the order of the caller's list; P1(0,5), P2(0,5) under sjf
\* runs P1 then P2 and completes them at 5 and 10.
C7_TieBreak ==
    /\ policy \in {"SJF", "Priority"} =>
          \A k, l \in 1..Len(gantt) :
              (/\ k < l
               /\ GivenOf(gantt[l].pid).arrival <= gantt[k].start
               /\ KeyOf(gantt[k].pid) = KeyOf(gantt[l].pid))
              => EnteredBefore(gantt[k].pid, gantt[l].pid)
    /\ (given = ScenarioTie /\ policy = "SJF" /\ Returned) =>
          /\ gantt = <<Event(1, 0, 5), Event(2, 5, 10)>>
          /\ results[1].completion = 5
          /\ results[2].completion = 10

\* equal keys meet again in a queue re-sorted after a later arrival
C7_Witness ==
    /\ policy \in {"SJF", "Priority"} /\ Returned /\ Len(gantt) = 3
    /\ GivenOf(gantt[3].pid).arrival > gantt[1].start
    /\ GivenOf(gantt[3].pid).arrival <= gantt[2].start
    /\ KeyOf(gantt[2].pid) = KeyOf(gantt[3].pid)

\* C8: round_robin with quantum 2 on P1(0,4), P2(1,3) yields the timeline
\* P1:0-2, P2:2-4, P1:4-6, P2:6-7 and the completions 6 and 7.
C8_RoundRobinScenario ==
    (given = ScenarioA /\ policy = "Round Robin" /\ quantum = 2 /\ Returned) =>
        /\ gantt = <<Event(1, 0, 2), Event(2, 2, 4), Event(1, 4, 6), Event(2, 6, 7)>>
        /\ results[1].completion = 6
        /\ results[2].completion = 7

C8_Witness ==
    given = ScenarioA /\ policy = "Round Robin" /\ quantum = 2 /\ pc = "done"

\* C9: fcfs on P1(0,4), P2(1,3) completes them at 4 and 7 with waiting times
\* 0 and 3, 3 in total over 2 processes; and the metrics of any run are
\* turnaround = completion - arrival and waiting = turnaround - burst for
\* each process, averaged over all the processes.
C9_Metrics ==
    /\ (given = ScenarioA /\ policy = "FCFS" /\ pc = "done") =>
          /\ results[1].completion = 4 /\ results[2].completion = 7
          /\ metrics.df[1].waiting = 0 /\ metrics.df[2].waiting = 3
          /\ metrics.avg_wt = [sum |-> 3, count |-> 2]
    /\ pc = "done" =>
          /\ \A x \in Pids :
                /\ metrics.df[x].turnaround
                      = results[x].completion - GivenOf(x).arrival
                /\ metrics.df[x].waiting
                      = metrics.df[x].turnaround - GivenOf(x).burst
          /\ metrics.avg_tat.count = Len(given)
          /\ metrics.avg_wt.count = Len(given)
          /\ metrics.avg_tat.sum
                = SumOf(Pids, [x \in Pids |->
                      results[x].completion - GivenOf(x).arrival])
          /\ metrics.avg_wt.sum
                = SumOf(Pids, [x \in Pids |->
                      results[x].completion - GivenOf(x).arrival
                          - GivenOf(x).burst])

C9_Witness ==
    given = ScenarioA /\ policy = "FCFS" /\ pc = "done"

\* C10: a round_robin run whose quantum is not positive is rejected before
\* any step: it emits no timeline event and records no completion.
C10_InvalidQuantumRejected ==
    (policy = "Round Robin" /\ quantum <= 0) =>
        /\ gantt = <<>>
        /\ completed = EmptyDict
        /\ results = EmptyDict

\* the list breaks an invariant of a ProcessSet
InvalidList ==
    \/ Len(given) = 0
    \/ \E j, l \in 1..Len(given) : j # l /\ given[j].pid = given[l].pid
    \/ \E j \in 1..Len(given) : given[j].burst <= 0
    \/ \E j \in 1..Len(given) : given[j].arrival < 0

\* C11: a run on a list that breaks a ProcessSet invariant is rejected before
\* the simulation starts: no timeline event, no completion record, no return.
C11_InvalidListRejected ==
    InvalidList =>
        /\ gantt = <<>>
        /\ results = EmptyDict
        /\ completed = EmptyDict
        /\ ~Returned

\* C12: a run leaves the caller's list as it was: the same processes, with
\* the same fields, in the same order.
C12_InputUnchanged == processes = given

\* the sum of the bursts of the caller's list
RECURSIVE BurstsUpTo(_)
BurstsUpTo(n) == IF n = 0 THEN 0 ELSE BurstsUpTo(n - 1) + given[n].burst

\* C13: no run iterates its main loop more than (sum of bursts + number of
\* processes) times; every round_robin iteration that dispatches adds one
\* timeline event, so the timeline is no longer than that either.
C13_IterationsBounded ==
    policy = "Round Robin" =>
        Len(gantt) <= BurstsUpTo(Len(given)) + Len(given)

\* the last timeline event, and its process being unfinished at a loop head
LastEvent == gantt[Len(gantt)]

AfterUnfinishedSlice ==
    /\ policy = "Round Robin" /\ pc = "loop" /\ gantt # <<>>
    /\ remaining[LastEvent.pid] > 0

\* the queue is: older entries, then the processes of the set new in
\* arrival order, then the process of the last slice
QueuedAheadOfRequeued(new) ==
    LET n == Len(ready)
        m == Cardinality(new)
    IN /\ n >= m + 1
       /\ ready[n].pid = LastEvent.pid
       /\ {ready[j].pid : j \in (n - m)..(n - 1)} = new
       /\ \A j, l \in (n - m)..(n - 1) :
              j < l => EnteredBefore(ready[j].pid, ready[l].pid)
       /\ \A j \in 1..(n - m - 1) :
              GivenOf(ready[j].pid).arrival <= LastEvent.start

\* C14 as stated: after a slice [start, end) of an unfinished p, the processes
\* put ahead of p's re-enqueue are those that arrived before end; one whose
\* arrival equals end is not yet queued.
C14_ArrivalsBeforeEnd ==
    AfterUnfinishedSlice =>
        QueuedAheadOfRequeued({x \in Pids : /\ GivenOf(x).arrival > LastEvent.start
                                            /\ GivenOf(x).arrival < LastEvent.end})

\* C14 amended: the processes put ahead of p's re-enqueue are those with
\* start < arrival <= end, in arrival order: one whose arrival equals end is
\* queued by the loop after the slice and sits ahead of p.
C14_ArrivalsUpToEnd ==
    AfterUnfinishedSlice =>
        QueuedAheadOfRequeued({x \in Pids : /\ GivenOf(x).arrival > LastEvent.start
                                            /\ GivenOf(x).arrival <= LastEvent.end})

C14_Witness ==
    /\ AfterUnfinishedSlice
    /\ Len(ready) = 3
    /\ \E x \in Pids : GivenOf(x).arrival = LastEvent.end
    /\ ready[2].pid # LastEvent.pid
    /\ GivenOf(ready[1].pid).arrival <= LastEvent.start

\* x has arrived by the start of event k and has no earlier event
ReadyAtEvent(x, k) ==
    /\ GivenOf(x).arrival <= gantt[k].start
    /\ \A j \in 1..(k - 1) : gantt[j].pid # x

\* C15: under sjf and priority every dispatched process has the least key
\* among the processes arrived and not completed at that clock, and runs its
\* whole burst as one event [clock, clock + burst).
C15_MinimumKeyDispatched ==
    policy \in {"SJF", "Priority"} =>
        \A k \in 1..Len(gantt) :
            /\ gantt[k].end = gantt[k].start + GivenOf(gantt[k].pid).burst
            /\ Cardinality(EventsOf(gantt[k].pid)) = 1
            /\ \A x \in Pids :
                   ReadyAtEvent(x, k) => KeyOf(gantt[k].pid) <= KeyOf(x)

\* a process that entered the queue later overtakes one with a greater key
C15_Witness ==
    /\ policy \in {"SJF", "Priority"}
    /\ \E k \in 1..Len(gantt) : \E x \in Pids :
           /\ ReadyAtEvent(x, k)
           /\ EnteredBefore(x, gantt[k].pid)
           /\ KeyOf(gantt[k].pid) < KeyOf(x)

\* fcfs's clock when event k is emitted
ClockBefore(k) == IF k = 1 THEN 0 ELSE gantt[k - 1].end

\* C16: fcfs emits an IDLE event exactly when its clock is behind the next
\* process's arrival, spanning [clock, arrival); sjf, priority and
\* round_robin emit no IDLE event, and an iteration that finds the ready
\* queue empty only sets the clock to the next unarrived process's arrival.
C16_IdleReporting ==
    /\ [](policy = "FCFS" =>
            \A k \in 1..Len(gantt) :
                IF gantt[k].pid = IDLE
                THEN /\ k < Len(gantt)
                     /\ gantt[k + 1].pid # IDLE
                     /\ gantt[k].start = ClockBefore(k)
                     /\ gantt[k].end = GivenOf(gantt[k + 1].pid).arrival
                     /\ gantt[k].start < gantt[k].end
                ELSE (k = 1 \/ gantt[k - 1].pid # IDLE)
                         => ClockBefore(k) >= GivenOf(gantt[k].pid).arrival)
    /\ [](policy # "FCFS" => \A k \in 1..Len(gantt) : gantt[k].pid # IDLE)
    /\ [][(policy # "FCFS" /\ pc = "loop" /\ pc' = "loop" /\ ready = <<>>
             /\ admit_until(processes, i, time) = i)
          => (gantt' = gantt /\ NextArrivalAfter(time, time'))]_vars

C16_Witness ==
    /\ policy = "FCFS"
    /\ \E k \in 2..Len(gantt) : gantt[k].pid = IDLE

\* C17: every round_robin slice has the length min(quantum, remaining), at
\* least 1 and at most quantum; a slice shorter than quantum is the last of
\* its process; a completion is recorded for a process exactly when its
\* burst is served, as the end of its last slice.
C17_SliceLengths ==
    policy = "Round Robin" =>
        /\ \A k \in 1..Len(gantt) :
              LET len == gantt[k].end - gantt[k].start
                  rem == GivenOf(gantt[k].pid).burst - Executed(gantt[k].pid, k - 1)
              IN /\ len = (IF quantum <= rem THEN quantum ELSE rem)
                 /\ 1 <= len /\ len <= quantum
                 /\ len < quantum =>
                        \A l \in (k + 1)..Len(gantt) : gantt[l].pid # gantt[k].pid
        /\ \A x \in Pids :
              /\ x \in DOMAIN completed
                    <=> (pc # "call" /\ Executed(x, Len(gantt)) = GivenOf(x).burst)
              /\ x \in DOMAIN completed =>
                    \E k \in EventsOf(x) :
                        /\ completed[x] = gantt[k].end
                        /\ \A l \in EventsOf(x) : l <= k

C17_Witness ==
    /\ policy = "Round Robin" /\ quantum = 2
    /\ \E x \in DOMAIN completed :
           /\ Cardinality(EventsOf(x)) > 1
           /\ \E k \in EventsOf(x) : gantt[k].end - gantt[k].start = 1

\* C18: in a round_robin run no process is in the ready queue twice, and
\* every queued process has arrived, has remaining burst > 0 and has no
\* completion recorded.
C18_ReadyQueue ==
    policy = "Round Robin" =>
        /\ \A j, l \in 1..Len(ready) : j # l => ready[j].pid # ready[l].pid
        /\ \A j \in 1..Len(ready) :
              /\ remaining[ready[j].pid] > 0
              /\ ready[j].pid \notin DOMAIN completed
              /\ ready[j].arrival <= time

C18_Witness ==
    /\ policy = "Round Robin"
    /\ Len(ready) >= 2
    /\ DOMAIN completed # {}

\* C19: every policy is work-conserving: when a gap or an IDLE event covers
\* [a, b), every process with arrival < b is finished by a.
C19_WorkConserving ==
    \A k \in 1..Len(gantt) : \A x \in Pids :
        /\ (k < Len(gantt) /\ gantt[k].end < gantt[k + 1].start
              /\ GivenOf(x).arrival < gantt[k + 1].start)
           => Executed(x, k) = GivenOf(x).burst
        /\ (gantt[k].pid = IDLE /\ GivenOf(x).arrival < gantt[k].end)
           => Executed(x, k) = GivenOf(x).burst

C19_Witness ==
    /\ policy # "FCFS"
    /\ Cardinality({k \in 1..(Len(gantt) - 1) :
                        gantt[k].end < gantt[k + 1].start}) = 2

\* C20: the clock never decreases; every timeline event has end > start,
\* starts no earlier than the end of the event before it, and an event of a
\* process starts no earlier than that process's arrival.
C20_TimeOrder ==
    /\ [](\A k \in 1..Len(gantt) :
            /\ gantt[k].end > gantt[k].start
            /\ k < Len(gantt) => gantt[k + 1].start >= gantt[k].end
            /\ gantt[k].pid # IDLE =>
                   gantt[k].start >= GivenOf(gantt[k].pid).arrival)
    /\ [][time' >= time]_vars

C20_Witness ==
    /\ policy = "Round Robin" /\ Returned
    /\ Len(gantt) >= 3
    /\ \E k \in 1..(Len(gantt) - 1) : gantt[k].end < gantt[k + 1].start

====
